---------------------------- MODULE Spec2Model ----------------------------
(***************************************************************************)
(* Model of github.py: the export / apply workflow for reviewing and      *)
(* deleting GitHub repositories through a CSV sheet.                      *)
(*                                                                         *)
(* Text is modelled as sequences of one-character strings, so that         *)
(* str.strip(), str.lower(), the "/" test and str.split("/", 1) are        *)
(* computed and not assumed.  A CSV file is modelled after csv parsing:    *)
(* a header (column names) and rows of fields.                             *)
(***************************************************************************)
EXTENDS Integers, Sequences, FiniteSets, TLC

(***************************************************************************)
(* Bounds of the model.                                                    *)
(***************************************************************************)
MaxRows == 3        \* data rows of a hand-edited sheet
MaxGets == 3        \* listing requests of one run that the model follows
MaxListed == 3      \* records the remote holds in the listing without end (LiveSpec)

(***************************************************************************)
(* State.                                                                  *)
(***************************************************************************)
VARIABLES
    pc,          \* where the run stands: start, list, listed, load, gate,
                 \* confirm, loop, done
    command,     \* args.command
    token,       \* what getpass returned
    sheet,       \* the file at args.sheet and its parent directory
    sheet0,      \* the same before the run
    url,         \* get_repositories: url
    repos,       \* get_repositories: repos
    result,      \* what get_repositories returned
    served,      \* the answers the remote gave to the listing requests
    full_names,  \* what load_deletion_list returned
    gate,        \* the confirmation gate
    line,        \* the line the operator typed
    idx,         \* delete_repositories: position of the for loop
    io,          \* every network call, file access, prompt and print so far
    exit,        \* exit status of the process, -1 while it runs
    run,         \* first: the run under study; second: an apply run after it
    prev         \* what the run before this one did, for the second run

vars == <<pc, command, token, sheet, sheet0, url, repos, result, served,
          full_names, gate, line, idx, io, exit, run, prev>>

Running == -1

(***************************************************************************)
(* Text.                                                                   *)
(***************************************************************************)
UpperLetters == <<"A","B","C","D","E","F","G","H","I","J","K","L","M",
                  "N","O","P","Q","R","S","T","U","V","W","X","Y","Z">>
LowerLetters == <<"a","b","c","d","e","f","g","h","i","j","k","l","m",
                  "n","o","p","q","r","s","t","u","v","w","x","y","z">>

\* the characters str.strip() removes, among those the model uses
Whitespace == {" ", "\t"}

LowerChar(c) ==
    IF \E k \in 1..Len(UpperLetters) : UpperLetters[k] = c
    THEN LowerLetters[CHOOSE k \in 1..Len(UpperLetters) : UpperLetters[k] = c]
    ELSE c

\* str.lower()
Lower(s) == [k \in 1..Len(s) |-> LowerChar(s[k])]

RECURSIVE LStrip(_)
LStrip(s) == IF s # <<>> /\ Head(s) \in Whitespace THEN LStrip(Tail(s)) ELSE s

RECURSIVE RStrip(_)
RStrip(s) ==
    IF s # <<>> /\ s[Len(s)] \in Whitespace
    THEN RStrip(SubSeq(s, 1, Len(s) - 1))
    ELSE s

\* str.strip()
Strip(s) == RStrip(LStrip(s))

\* "/" in full_name
HasSlash(s) == \E k \in 1..Len(s) : s[k] = "/"

FirstSlash(s) == CHOOSE k \in 1..Len(s) : s[k] = "/" /\ \A j \in 1..(k - 1) : s[j] # "/"

\* full_name.split("/", 1): the text before the first "/" and the text after it
SplitOwner(s) == SubSeq(s, 1, FirstSlash(s) - 1)
SplitName(s) == SubSeq(s, FirstSlash(s) + 1, Len(s))

\* owner and name put the wrong way round
RepoUrlSwapped(owner, name) == name \o <<"/">> \o owner

\* the path of f"https://api.github.com/repos/{owner}/{name}" below repos/
RepoUrl(owner, name) == owner \o <<"/">> \o name

S_DELETE == <<"D","E","L","E","T","E">>
S_No == <<"N","o">>
S_private == <<"p","r","i","v","a","t","e">>
S_public == <<"p","u","b","l","i","c">>
S_yes == <<"y","e","s">>
S_y == <<"y">>
S_true == <<"t","r","u","e">>
S_1 == <<"1">>


(***************************************************************************)
(* Sheet Store: write_sheet and load_deletion_list.                        *)
(***************************************************************************)
SheetHeader == <<"full_name", "visibility", "delete">>

\* repo.get("private") is truthy
IsPrivate(repo) == repo.private = "true"

Visibility(repo) == IF IsPrivate(repo) THEN S_private ELSE S_public

\* every row written with its delete column set
SheetRowMarked(repo) == <<repo.full_name, Visibility(repo), <<"Y","e","s">>>>

\* the row writer.writerow() emits for one repository
SheetRow(repo) == <<repo.full_name, Visibility(repo), S_No>>

\* the file opened for appending: what was there stays in front
WriteSheetAppending(records) ==
    [dir |-> TRUE, exists |-> TRUE, header |-> SheetHeader,
     rows |-> (IF sheet.exists THEN sheet.rows ELSE <<>>)
              \o [k \in 1..Len(records) |-> SheetRow(records[k])]]

\* write_sheet: mkdir(parents, exist_ok), open "w", header, one row per repo
WriteSheet(records) ==
    [dir |-> TRUE, exists |-> TRUE, header |-> SheetHeader,
     rows |-> [k \in 1..Len(records) |-> SheetRow(records[k])]]

\* (row.get(key) or ""): csv.DictReader zips the header with the row, the
\* last column of a repeated name wins, a column the row is too short for
\* reads None, and so does a column the header lacks
Field(header, row, key) ==
    LET cols == {j \in 1..Len(header) : header[j] = key}
        last == CHOOSE j \in cols : \A m \in cols : m <= j
    IN  IF cols = {} THEN <<>>
        ELSE IF last > Len(row) THEN <<>>
        ELSE row[last]

\* flag in {"yes", "y", "true", "1"}
IsAffirmative(flag) == flag \in {S_yes, S_y, S_true, S_1}

\* the flag compared as typed
DeleteFlagAsTyped(header, row) == Strip(Field(header, row, "delete"))

\* flag = (row.get("delete") or "").strip().lower()
DeleteFlag(header, row) == Lower(Strip(Field(header, row, "delete")))

\* full_name = (row.get("full_name") or "").strip()
RowFullName(header, row) == Strip(Field(header, row, "full_name"))

\* the rows collected in a dict keyed by full_name: a later row replaces an
\* earlier one with the same name
RECURSIVE ScanRowsLastWins(_, _)
ScanRowsLastWins(header, rows) ==
    IF rows = <<>> THEN <<>>
    ELSE LET row == Head(rows)
             rest == Tail(rows)
             mine == IF /\ row # <<>>
                        /\ IsAffirmative(DeleteFlag(header, row))
                        /\ RowFullName(header, row) # <<>>
                        /\ \A q \in 1..Len(rest) :
                              RowFullName(header, rest[q]) # RowFullName(header, row)
                     THEN <<RowFullName(header, row)>>
                     ELSE <<>>
         IN  mine \o ScanRowsLastWins(header, rest)

\* the for loop over the reader; DictReader passes over rows without fields
RECURSIVE ScanRows(_, _)
ScanRows(header, rows) ==
    IF rows = <<>> THEN <<>>
    ELSE LET row == Head(rows)
             mine == IF /\ row # <<>>
                        /\ IsAffirmative(DeleteFlag(header, row))
                        /\ RowFullName(header, row) # <<>>
                     THEN <<RowFullName(header, row)>>
                     ELSE <<>>
         IN  mine \o ScanRows(header, Tail(rows))

\* the file opened for writing: its rows are gone once it is open
OpenForReadTruncating(sh) == [sh EXCEPT !.rows = <<>>]

\* sheet_path.open("r"): the file is left as it is
OpenForRead(sh) == sh

\* load_deletion_list
LoadDeletionList(sh) ==
    IF ~sh.exists THEN <<>> ELSE ScanRows(sh.header, sh.rows)

(***************************************************************************)
(* Inputs: the sheets an operator may have left, the operator's answers,  *)
(* the remote's answers.                                                   *)
(***************************************************************************)
SeqsUpTo(S, n) == UNION {[1..k -> S] : k \in 0..n}

N_ab == <<"a","/","b">>
N_cd == <<"c","/","d">>
N_ef == <<"e","/","f">>

\* hand-edited rows, by column name
RowKinds ==
    { [full_name |-> N_ab, delete |-> <<"Y","e","s">>],
      [full_name |-> <<" ","c","/","d"," ">>, delete |-> <<" ","Y","\t">>],
      [full_name |-> N_ab, delete |-> <<"N","o">>],
      [full_name |-> <<"x">>, delete |-> <<"T","R","U","E">>],
      [full_name |-> <<" ">>, delete |-> <<"1">>],
      [full_name |-> N_cd, delete |-> <<"m","a","y","b","e">>],
      [full_name |-> N_ef, delete |-> <<>>],
      [full_name |-> <<>>, delete |-> <<"y">>] }

\* column layouts of a hand-edited file: as written, reordered, and two
\* that lack a column
Headers ==
    { SheetHeader,
      <<"delete", "full_name", "visibility">>,
      <<"full_name", "visibility">>,
      <<"visibility", "delete">> }

CellOf(rec, col) ==
    CASE col = "full_name" -> rec.full_name
      [] col = "delete" -> rec.delete
      [] OTHER -> S_public

\* the file row of a logical row under a column layout
Layout(header, rec) == [j \in 1..Len(header) |-> CellOf(rec, header[j])]

NoSheet(d) == [dir |-> d, exists |-> FALSE, header |-> <<>>, rows |-> <<>>]

EditedSheets ==
    { [dir |-> TRUE, exists |-> TRUE, header |-> h,
       rows |-> [k \in 1..Len(rs) |-> Layout(h, rs[k])]] :
      h \in Headers, rs \in SeqsUpTo(RowKinds, MaxRows) }

\* what may be at the sheet path when apply starts
ApplySheets == {NoSheet(TRUE), NoSheet(FALSE)} \cup EditedSheets

\* what may be at the sheet path when export starts
ExportSheets ==
    { NoSheet(TRUE), NoSheet(FALSE),
      [dir |-> TRUE, exists |-> TRUE, header |-> SheetHeader,
       rows |-> <<Layout(SheetHeader, [full_name |-> N_ab, delete |-> S_yes])>>] }

Tokens == {<<>>, <<"t">>}

\* lines the operator may type at the prompt
ConfirmInputs ==
    { S_DELETE,
      <<" ">> \o S_DELETE \o <<"\t", " ">>,
      <<"d","e","l","e","t","e">>,
      <<"D","e","l","e","t","e"," ">>,
      <<"y","e","s">>,
      S_DELETE \o <<" ","n","o","w">>,
      <<"D","E","L","E","T">>,
      <<>> }

\* repositories the remote may list: "private" true, false, absent
R_ab == [full_name |-> N_ab, private |-> "true"]
R_cd == [full_name |-> N_cd, private |-> "false"]
R_ef == [full_name |-> N_ef, private |-> "missing"]

\* the JSON array of one page of the listing
PageData == { <<>>, <<R_ab>>, <<R_ef>>, <<R_cd, R_ef>>, <<R_cd, R_ab>> }

NoUrl == 0
FirstUrl == 1
Urls == {FirstUrl, 2}

\* answers to a listing GET: an exception of the transport, an error
\* status, or a page with its "next" link (NoUrl: no link)
GetResponses ==
    {[raised |-> TRUE, status |-> 0, data |-> <<>>, next |-> NoUrl]}
    \cup {[raised |-> FALSE, status |-> s, data |-> <<>>, next |-> NoUrl] : s \in {401, 500}}
    \cup [raised : {FALSE}, status : {200},
          data : PageData, next : {NoUrl} \cup Urls]

\* answers to a DELETE: an exception of the transport, or a status
DeleteResponses ==
    {[raised |-> TRUE, status |-> 0]}
    \cup [raised : {FALSE}, status : {204, 404}]

Event(op, s, n) == [op |-> op, s |-> s, n |-> n]

(***************************************************************************)
(* Decisions of the code, one operator each.                               *)
(***************************************************************************)
\* the check of the token left out
TokenMissingIgnored(tok) == FALSE

\* main: if not token
TokenMissing(tok) == tok = <<>>

\* get_repositories: response.status_code != 200 is the failure
PageOk(resp) == resp.status = 200

\* what was gathered so far, returned in place of None
ListFailurePartial(acc) == [none |-> FALSE, list |-> acc]

\* get_repositories: return None
ListFailure(acc) == [none |-> TRUE, list |-> <<>>]

\* get_repositories: return repos
ListOk(acc) == [none |-> FALSE, list |-> acc]

\* the page put before what was gathered
ExtendInFront(acc, data) == data \o acc

\* get_repositories: repos.extend(data)
Extend(acc, data) == acc \o data

\* a page without a link asked for again
NextLinkSticky(current, resp) == IF resp.next = NoUrl THEN current ELSE resp.next

\* get_repositories: url = response.links.get("next", {}).get("url")
NextLink(current, resp) == resp.next

\* the check of the listing left out
FetchFailedIgnored(res) == FALSE

\* main: if repos is None
FetchFailed(res) == res.none

\* the check of the empty request left out
NothingMarkedIgnored(names) == FALSE

\* delete_repositories: if not full_names
NothingMarked(names) == names = <<>>

\* a comparison that ignores case
ConfirmAcceptedAnyCase(ln) == Lower(Strip(ln)) = Lower(S_DELETE)

\* delete_repositories: input(...).strip() is "DELETE"
ConfirmAccepted(ln) == Strip(ln) = S_DELETE

\* delete_repositories: the gate after the operator's line
GateAfter(ln) == IF ConfirmAccepted(ln) THEN "Approved" ELSE "Aborted"

\* the return left out
ReturnsAtGateNever(g) == FALSE

\* delete_repositories: the return after print("Aborted.")
ReturnsAtGate(g) == g = "Aborted"

\* delete_repositories: resp.status_code == 204 prints Deleted, else Failed
DeleteOutcome(status) == IF status = 204 THEN "Deleted" ELSE "Failed"

\* a rejected call ends the loop
NextItemStopOnFailure(i, outcome) ==
    IF outcome = "Failed" THEN Len(full_names) + 1 ELSE i + 1

\* a name without "/" ends the loop (break for continue)
NextItemStopOnSkip(i, outcome) ==
    IF outcome = "Skipping" THEN Len(full_names) + 1 ELSE i + 1

\* a rejected call makes the loop pass over the next name
NextItemJumpOnFailure(i, outcome) ==
    IF outcome = "Failed" THEN i + 2 ELSE i + 1

\* a name without "/" makes the loop pass over the next name
NextItemJumpOnSkip(i, outcome) ==
    IF outcome = "Skipping" THEN i + 2 ELSE i + 1

\* delete_repositories: the for loop goes on to the next name whatever the
\* outcome of this one
NextItem(i, outcome) == i + 1

(***************************************************************************)
(* What a run has done, read off its record.                               *)
(***************************************************************************)
IsCall(e) == e.op = "DELETE"
IsGet(e) == e.op = "GET"
IsReport(e) == e.op \in {"Deleted", "Failed", "Skipping"}

Calls == SelectSeq(io, IsCall)
Gets == SelectSeq(io, IsGet)
Reports == SelectSeq(io, IsReport)

Happened(op) == \E p \in 1..Len(io) : io[p].op = op

NoRun ==
    [command |-> "none", marked |-> FALSE, wrote |-> FALSE, gate |-> "None",
     calls |-> <<>>]

Init ==
    /\ pc = "start"
    /\ command \in {"export", "apply"}
    /\ token \in Tokens
    /\ sheet \in (IF command = "export" THEN ExportSheets ELSE ApplySheets)
    /\ sheet0 = sheet
    /\ url = NoUrl
    /\ repos = <<>>
    /\ result = [none |-> TRUE, list |-> <<>>]
    /\ served = <<>>
    /\ full_names = <<>>
    /\ gate = "None"
    /\ line = <<>>
    /\ idx = 0
    /\ io = <<>>
    /\ exit = Running
    /\ run = "first"
    /\ prev = NoRun

(***************************************************************************)
(* main: the token, then the command.                                      *)
(***************************************************************************)
Main ==
    /\ pc = "start"
    /\ IF TokenMissing(token)
       THEN /\ io' = io \o <<Event("getpass", <<>>, 0), Event("TokenRequired", <<>>, 0)>>
            /\ pc' = "done"
            /\ exit' = 1
            /\ UNCHANGED <<url, repos>>
       ELSE IF command = "export"
       THEN /\ io' = Append(io, Event("getpass", <<>>, 0))
            /\ pc' = "list"
            /\ url' = FirstUrl
            /\ repos' = <<>>
            /\ UNCHANGED exit
       ELSE /\ io' = Append(io, Event("getpass", <<>>, 0))
            /\ pc' = "load"
            /\ UNCHANGED <<url, repos, exit>>
    /\ UNCHANGED <<run, prev, command, token, sheet, sheet0, result, served, full_names,
                   gate, line, idx>>

(***************************************************************************)
(* get_repositories: one turn of the while loop, and the return when the   *)
(* loop ends.                                                              *)
(***************************************************************************)
GetPage ==
    /\ pc = "list"
    /\ url # NoUrl
    /\ Len(served) < MaxGets
    /\ \E resp \in GetResponses :
        /\ served' = Append(served, [url |-> url, resp |-> resp])
        /\ IF resp.raised
           THEN /\ io' = io \o <<Event("GET", <<>>, url), Event("Traceback", <<>>, 0)>>
                /\ pc' = "done"
                /\ exit' = 1
                /\ UNCHANGED <<url, repos, result>>
           ELSE IF ~PageOk(resp)
           THEN /\ io' = io \o <<Event("GET", <<>>, url),
                                 Event("ErrorFetching", <<>>, resp.status)>>
                /\ result' = ListFailure(repos)
                /\ pc' = "listed"
                /\ UNCHANGED <<url, repos, exit>>
           ELSE /\ io' = Append(io, Event("GET", <<>>, url))
                /\ repos' = Extend(repos, resp.data)
                /\ url' = NextLink(url, resp)
                /\ IF url' = NoUrl
                   THEN /\ result' = ListOk(repos')
                        /\ pc' = "listed"
                   ELSE UNCHANGED <<result, pc>>
                /\ UNCHANGED exit
    /\ UNCHANGED <<run, prev, command, token, sheet, sheet0, full_names, gate, line, idx>>

(***************************************************************************)
(* main, export: exit on a failed listing, else write_sheet.               *)
(***************************************************************************)
Export ==
    /\ pc = "listed"
    /\ IF FetchFailed(result)
       THEN /\ exit' = 1
            /\ UNCHANGED <<sheet, io>>
       ELSE /\ sheet' = WriteSheet(result.list)
            /\ io' = io \o <<Event("mkdir", <<>>, 0), Event("write", <<>>, 0),
                             Event("Wrote", <<>>, Len(result.list))>>
            /\ exit' = 0
    /\ pc' = "done"
    /\ UNCHANGED <<run, prev, command, token, sheet0, url, repos, result, served,
                   full_names, gate, line, idx>>

(***************************************************************************)
(* main, apply: load_deletion_list.                                        *)
(***************************************************************************)
Load ==
    /\ pc = "load"
    /\ full_names' = LoadDeletionList(sheet)
    /\ io' = io \o (IF sheet.exists
                    THEN <<Event("exists", <<>>, 0), Event("read", <<>>, 0)>>
                    ELSE <<Event("exists", <<>>, 0), Event("SheetNotFound", <<>>, 0)>>)
    /\ sheet' = OpenForRead(sheet)
    /\ pc' = "gate"
    /\ UNCHANGED <<run, prev, command, token, sheet0, url, repos, result, served,
                   gate, line, idx, exit>>

(***************************************************************************)
(* delete_repositories.                                                    *)
(***************************************************************************)
\* up to the prompt
Enter ==
    /\ pc = "gate"
    /\ IF NothingMarked(full_names)
       THEN /\ io' = Append(io, Event("NothingMarked", <<>>, 0))
            /\ pc' = "done"
            /\ exit' = 0
            /\ UNCHANGED gate
       ELSE /\ io' = io \o <<Event("Selected", <<>>, 0)>>
                        \o [j \in 1..Len(full_names) |-> Event("Item", full_names[j], 0)]
                        \o <<Event("prompt", <<>>, 0)>>
            /\ gate' = "AwaitingConfirmation"
            /\ pc' = "confirm"
            /\ UNCHANGED exit
    /\ UNCHANGED <<run, prev, command, token, sheet, sheet0, url, repos, result, served,
                   full_names, line, idx>>

\* the operator's line
Confirm ==
    /\ pc = "confirm"
    /\ \E ln \in ConfirmInputs :
        /\ line' = ln
        /\ gate' = GateAfter(ln)
        /\ io' = IF gate' = "Aborted" THEN Append(io, Event("Aborted", <<>>, 0)) ELSE io
        /\ IF ReturnsAtGate(gate')
           THEN /\ pc' = "done"
                /\ exit' = 0
                /\ UNCHANGED idx
           ELSE /\ pc' = "loop"
                /\ idx' = 1
                /\ UNCHANGED exit
    /\ UNCHANGED <<run, prev, command, token, sheet, sheet0, url, repos, result, served,
                   full_names>>

\* the end of one turn of the for loop
Advance(outcome) ==
    /\ idx' = NextItem(idx, outcome)
    /\ IF idx' > Len(full_names)
       THEN pc' = "done" /\ exit' = 0
       ELSE UNCHANGED <<pc, exit>>

\* one turn of the for loop, for a name without "/"
DeleteSkip ==
    /\ pc = "loop"
    /\ ~HasSlash(full_names[idx])
    /\ io' = Append(io, Event("Skipping", full_names[idx], 0))
    /\ Advance("Skipping")
    /\ UNCHANGED <<run, prev, command, token, sheet, sheet0, url, repos, result, served,
                   full_names, gate, line>>

\* one turn of the for loop, for a name with "/"
DeleteCall ==
    /\ pc = "loop"
    /\ HasSlash(full_names[idx])
    /\ \E resp \in DeleteResponses :
        LET name == full_names[idx]
            call == Event("DELETE", RepoUrl(SplitOwner(name), SplitName(name)), 0)
        IN  IF resp.raised
            THEN /\ io' = io \o <<call, Event("Traceback", <<>>, 0)>>
                 /\ pc' = "done"
                 /\ exit' = 1
                 /\ UNCHANGED idx
            ELSE /\ io' = io \o <<call, Event(DeleteOutcome(resp.status), name, resp.status)>>
                 /\ Advance(DeleteOutcome(resp.status))
    /\ UNCHANGED <<run, prev, command, token, sheet, sheet0, url, repos, result, served,
                   full_names, gate, line>>

\* the operator interrupts the deletion loop (KeyboardInterrupt)
Interrupt ==
    /\ pc = "loop"
    /\ io' = Append(io, Event("Traceback", <<>>, 0))
    /\ pc' = "done"
    /\ exit' = 130
    /\ UNCHANGED <<run, prev, command, token, sheet, sheet0, url, repos, result, served,
                   full_names, gate, line, idx>>

(***************************************************************************)
(* The sheet file outlives the process: after a run has ended normally,    *)
(* apply is run on the same path, with nothing kept but the file.          *)
(***************************************************************************)
Rerun ==
    /\ pc = "done"
    /\ exit = 0
    /\ run = "first"
    /\ run' = "second"
    /\ prev' = [command |-> command,
                marked |-> LoadDeletionList(sheet0) # <<>>,
                wrote |-> Happened("write"),
                gate |-> gate, calls |-> [j \in 1..Len(Calls) |-> Calls[j].s]]
    /\ command' = "apply"
    /\ UNCHANGED token
    /\ sheet0' = sheet
    /\ pc' = "start"
    /\ url' = NoUrl
    /\ repos' = <<>>
    /\ result' = [none |-> TRUE, list |-> <<>>]
    /\ served' = <<>>
    /\ full_names' = <<>>
    /\ gate' = "None"
    /\ line' = <<>>
    /\ idx' = 0
    /\ io' = <<>>
    /\ exit' = Running
    /\ UNCHANGED sheet

Next ==
    \/ Main
    \/ GetPage
    \/ Export
    \/ Load
    \/ Enter
    \/ Confirm
    \/ DeleteSkip
    \/ DeleteCall
    \/ Interrupt
    \/ Rerun

Spec == Init /\ [][Next]_vars

(***************************************************************************)
(* The export run with its listing loop unbounded, as in the code: the     *)
(* while loop of get_repositories has no count of its turns.  The record   *)
(* keeps the last request and answer only, and the remote holds at most    *)
(* MaxListed records, so that a listing that goes on for ever is a cycle   *)
(* of states.  Every step of the program is taken in the end, every        *)
(* request answered.                                                       *)
(***************************************************************************)
LiveInit == Init /\ command = "export"

\* the record without its earlier requests
WithoutGets(log) == SelectSeq(log, LAMBDA e : e.op # "GET")

LiveGetPage ==
    /\ pc = "list"
    /\ url # NoUrl
    /\ \E resp \in GetResponses :
        /\ Len(repos) + Len(resp.data) <= MaxListed
        /\ served' = <<[url |-> url, resp |-> resp]>>
        /\ IF resp.raised
           THEN /\ io' = WithoutGets(io)
                            \o <<Event("GET", <<>>, url), Event("Traceback", <<>>, 0)>>
                /\ pc' = "done"
                /\ exit' = 1
                /\ UNCHANGED <<url, repos, result>>
           ELSE IF ~PageOk(resp)
           THEN /\ io' = WithoutGets(io)
                            \o <<Event("GET", <<>>, url),
                                 Event("ErrorFetching", <<>>, resp.status)>>
                /\ result' = ListFailure(repos)
                /\ pc' = "listed"
                /\ UNCHANGED <<url, repos, exit>>
           ELSE /\ io' = Append(WithoutGets(io), Event("GET", <<>>, url))
                /\ repos' = Extend(repos, resp.data)
                /\ url' = NextLink(url, resp)
                /\ IF url' = NoUrl
                   THEN /\ result' = ListOk(repos')
                        /\ pc' = "listed"
                   ELSE UNCHANGED <<result, pc>>
                /\ UNCHANGED exit
    /\ UNCHANGED <<run, prev, command, token, sheet, sheet0, full_names, gate, line, idx>>

LiveNext ==
    \/ Main
    \/ LiveGetPage
    \/ Export

LiveSpec == LiveInit /\ [][LiveNext]_vars /\ WF_vars(LiveNext)

(***************************************************************************)
(* Text, as a reader sees it.                                              *)
(***************************************************************************)
\* t is s without its leading and trailing whitespace
TrimsTo(s, t) ==
    \E a \in 0..Len(s) : \E b \in a..Len(s) :
        /\ t = SubSeq(s, a + 1, b)
        /\ \A p \in 1..a : s[p] \in Whitespace
        /\ \A p \in (b + 1)..Len(s) : s[p] \in Whitespace
        /\ t # <<>> => (t[1] \notin Whitespace /\ t[Len(t)] \notin Whitespace)

(***************************************************************************)
(* C1: with a non-empty deletion request, the gate leaves                  *)
(* AwaitingConfirmation for Approved exactly when the operator's line,     *)
(* trimmed of leading and trailing whitespace, is DELETE in this very      *)
(* case; any other line takes it to Aborted.                               *)
(***************************************************************************)
C1_GateExact ==
    /\ gate # "None" => full_names # <<>>
    /\ gate = "AwaitingConfirmation" <=> pc = "confirm"
    /\ gate = "Approved" => TrimsTo(line, S_DELETE)
    /\ gate = "Aborted" => ~TrimsTo(line, S_DELETE)
    /\ pc = "loop" => gate = "Approved"
    /\ Happened("prompt") /\ pc # "confirm" => gate \in {"Approved", "Aborted"}

\* a padded DELETE was approved
C1_Witness == gate = "Approved" /\ line # S_DELETE

(***************************************************************************)
(* C2: no DELETE is sent unless the gate has reached Approved in this run; *)
(* a run whose gate is Aborted has sent none and has ended with status 0.  *)
(***************************************************************************)
C2_NoDeleteWithoutApproval ==
    /\ Calls # <<>> => gate = "Approved"
    /\ gate = "Aborted" => Calls = <<>> /\ pc = "done" /\ exit = 0
    /\ command = "export" => Calls = <<>>

\* a DELETE was sent, after approval
C2_Witness == Calls # <<>> /\ gate = "Approved" /\ pc = "done"

(***************************************************************************)
(* The listing as the remote served it.                                    *)
(***************************************************************************)
Answered(j) == ~served[j].resp.raised
Success(j) == Answered(j) /\ served[j].resp.status = 200
Rejected(j) == Answered(j) /\ served[j].resp.status # 200
HasNext(j) == served[j].resp.next # NoUrl

\* every page served so far succeeded and the last one carries no link
ListingComplete ==
    /\ served # <<>>
    /\ \A j \in 1..Len(served) : Success(j)
    /\ ~HasNext(Len(served))

\* the records of pages 1..n, page after page
RECURSIVE RecordsUpTo(_)
RecordsUpTo(n) == IF n = 0 THEN <<>> ELSE RecordsUpTo(n - 1) \o served[n].resp.data

(***************************************************************************)
(* C3: when every page succeeds and all pages but the last carry a next    *)
(* link, the listing returns the records of all pages in page order, has   *)
(* sent one GET per page, each to the link the page before supplied, and   *)
(* sends none after the page without a link.                               *)
(***************************************************************************)
C3_PaginationComplete ==
    /\ Len(Gets) = Len(served)
    /\ \A j \in 1..Len(Gets) :
          Gets[j].n = (IF j = 1 THEN FirstUrl ELSE served[j - 1].resp.next)
    /\ \A j \in 1..(Len(served) - 1) : Success(j) /\ HasNext(j)
    /\ ListingComplete =>
          /\ pc \in {"listed", "done"}
          /\ ~result.none
          /\ result.list = RecordsUpTo(Len(served))
          /\ ~ENABLED GetPage

\* three pages, the first two with a link, the records of all three returned
C3_Witness ==
    /\ ListingComplete
    /\ Len(served) = 3
    /\ served[1].resp.next # served[2].resp.next
    /\ result.list = <<R_cd, R_ab, R_ef, R_ab>>

(***************************************************************************)
(* C4: a page that answers with a status other than success is the last    *)
(* page requested, and the listing returns the failure value, which holds  *)
(* none of the records of the pages before.                                *)
(***************************************************************************)
C4_FailureDiscardsPartial ==
    \A j \in 1..Len(served) :
        Rejected(j) =>
            /\ j = Len(served)
            /\ Len(Gets) = j
            /\ ~ENABLED GetPage
            /\ pc \in {"listed", "done"}
            /\ result.none
            /\ result.list = <<>>

\* the third page fails after two pages with records
C4_Witness ==
    /\ Len(served) = 3
    /\ Rejected(3)
    /\ served[1].resp.data # <<>>
    /\ served[2].resp.data # <<>>
    /\ result.none

(***************************************************************************)
(* C5: when the listing fails during export, the run ends with a status    *)
(* other than zero and has not written: no directory made, no file opened  *)
(* for writing, the sheet and its directory as they were before the run.   *)
(***************************************************************************)
ListingFailed ==
    served # <<>> /\ (Rejected(Len(served)) \/ ~Answered(Len(served)))

C5_FailedExportWritesNothing ==
    command = "export" /\ ListingFailed =>
        /\ sheet = sheet0
        /\ ~Happened("mkdir")
        /\ ~Happened("write")
        /\ pc \in {"listed", "done"}
        /\ pc = "done" => exit # 0 /\ exit # Running

\* a failed export has ended and the marked sheet of before is still there
C5_Witness ==
    /\ command = "export"
    /\ pc = "done"
    /\ Len(served) = 2
    /\ Rejected(2)
    /\ sheet0.exists
    /\ sheet0.rows # <<>>

(***************************************************************************)
(* The deletion loop as the record shows it.                               *)
(***************************************************************************)
WellFormed(name) == ~(\A p \in 1..Len(name) : name[p] # "/")

\* the names among the first n of the request that have a "/"
RECURSIVE WellFormedUpTo(_)
WellFormedUpTo(n) ==
    IF n = 0 THEN <<>>
    ELSE WellFormedUpTo(n - 1)
         \o (IF WellFormed(full_names[n]) THEN <<full_names[n]>> ELSE <<>>)

\* the transport broke a call: the run ended in a traceback
Broken == Happened("Traceback")

\* the loop stands before the name after the last one reported, or, with
\* all names reported, the run has ended with status 0
LoopGoesOn ==
    IF Len(Reports) < Len(full_names)
    THEN pc = "loop" /\ idx = Len(Reports) + 1 /\ exit = Running
    ELSE pc = "done" /\ exit = 0

(***************************************************************************)
(* C6: after approval a DELETE that the remote answers with a status       *)
(* other than success neither ends the loop nor skips a later name: every  *)
(* name with a "/" gets its DELETE, each report is Deleted on the success  *)
(* status of its own call and Failed on any other, and the run ends with   *)
(* status 0 however many were Failed.                                      *)
(***************************************************************************)
C6_FailureIsolated ==
    gate = "Approved" =>
        /\ \A j \in 1..Len(Reports) :
              /\ Reports[j].op = "Deleted" <=>
                    (WellFormed(full_names[j]) /\ Reports[j].n = 204)
              /\ Reports[j].op = "Failed" <=>
                    (WellFormed(full_names[j]) /\ Reports[j].n # 204)
        /\ ~Broken => LoopGoesOn
        /\ ~Broken /\ pc = "done" => Calls = [j \in 1..Len(WellFormedUpTo(Len(full_names))) |->
                                         Event("DELETE", WellFormedUpTo(Len(full_names))[j], 0)]

\* three names, the second one rejected, the others deleted
C6_Witness ==
    /\ pc = "done"
    /\ exit = 0
    /\ Len(Reports) = 3
    /\ Reports[1].op = "Deleted"
    /\ Reports[2].op = "Failed" /\ Reports[2].n = 404
    /\ Reports[3].op = "Deleted"

(***************************************************************************)
(* C7: after approval a name without "/" causes no network call, is        *)
(* reported on the spot, and the names after it are still processed.       *)
(***************************************************************************)
C7_MalformedSkipped ==
    gate = "Approved" =>
        /\ Len(Calls) <= Len(WellFormedUpTo(Len(full_names)))
        /\ \A j \in 1..Len(Calls) : Calls[j].s = WellFormedUpTo(Len(full_names))[j]
        /\ \A j \in 1..Len(Reports) :
              ~WellFormed(full_names[j]) =>
                  /\ Reports[j].op = "Skipping"
                  /\ Reports[j].s = full_names[j]
        /\ \A p \in 1..Len(io) :
              io[p].op = "Skipping" => p > 1 /\ ~IsCall(io[p - 1])
        /\ Len(Calls) <= Len(WellFormedUpTo(Len(Reports))) + 1
        /\ (Reports # <<>> /\ io[Len(io)].op = "Skipping") => LoopGoesOn

\* a name without "/" was skipped and the name after it got its call
C7_Witness ==
    /\ gate = "Approved"
    /\ Len(Reports) >= 2
    /\ Reports[1].op = "Skipping"
    /\ Reports[2].op \in {"Deleted", "Failed"}
    /\ Len(Calls) = 1

Cell(sh, r, col) ==
    IF \E j \in 1..Len(sh.rows[r]) : j <= Len(sh.header) /\ sh.header[j] = col
    THEN sh.rows[r][CHOOSE j \in 1..Len(sh.rows[r]) : sh.header[j] = col]
    ELSE <<>>

\* s from its first to its last character that is no whitespace
Trimmed(s) ==
    LET solid == {p \in 1..Len(s) : s[p] \notin Whitespace}
    IN  IF solid = {} THEN <<>>
        ELSE SubSeq(s, CHOOSE a \in solid : \A p \in solid : a <= p,
                       CHOOSE b \in solid : \A p \in solid : p <= b)

Blank(s) == \A p \in 1..Len(s) : s[p] \in Whitespace

SameLetter(c, d) ==
    c = d \/ \E m \in 1..Len(UpperLetters) :
                {c, d} = {UpperLetters[m], LowerLetters[m]}

SameIgnoringCase(s, t) ==
    Len(s) = Len(t) /\ \A p \in 1..Len(s) : SameLetter(s[p], t[p])

\* the delete cell of row r says yes, y, true or 1
Marked(sh, r) ==
    \E t \in {S_yes, S_y, S_true, S_1} :
        SameIgnoringCase(Trimmed(Cell(sh, r, "delete")), t)

\* the rows that ask for a deletion
Targets(sh) ==
    {r \in 1..Len(sh.rows) : Marked(sh, r) /\ ~Blank(Cell(sh, r, "full_name"))}

\* the place of target row r among the target rows
Rank(sh, r) == Cardinality({q \in Targets(sh) : q <= r})

ColumnOrders(n) == {f \in [1..n -> 1..n] : \A a, b \in 1..n : f[a] = f[b] => a = b}

\* the same sheet with its columns in another order
Reordered(sh, f) ==
    [sh EXCEPT !.header = [j \in 1..Len(sh.header) |-> sh.header[f[j]]],
               !.rows = [r \in 1..Len(sh.rows) |->
                            [j \in 1..Len(sh.rows[r]) |-> sh.rows[r][f[j]]]]]

\* load_deletion_list has returned
Loaded == command = "apply" /\ Happened("exists")

(***************************************************************************)
(* C9: for an existing sheet the deletion request is the trimmed full_name *)
(* of every row whose delete cell, trimmed and lower-cased, is yes, y,     *)
(* true or 1 and whose full_name is not blank, in row order; other rows    *)
(* give nothing; the order of the columns makes no difference.  Stated of  *)
(* the state in which load_deletion_list has just returned.                *)
(***************************************************************************)
C9_RequestFromMarkedRows ==
    pc = "gate" /\ sheet.exists =>
        /\ Len(full_names) = Cardinality(Targets(sheet))
        /\ \A r \in Targets(sheet) :
              full_names[Rank(sheet, r)] = Trimmed(Cell(sheet, r, "full_name"))
        /\ \A f \in ColumnOrders(Len(sheet.header)) :
              LoadDeletionList(Reordered(sheet, f)) = full_names

\* reordered columns, three rows, the unmarked one in the middle dropped
C9_Witness ==
    /\ pc = "gate"
    /\ sheet.exists
    /\ sheet.header = <<"delete", "full_name", "visibility">>
    /\ Len(sheet.rows) = 3
    /\ Targets(sheet) = {1, 3}
    /\ full_names = <<N_cd, <<"x">>>>
    /\ sheet.rows[1][2] # N_cd

(***************************************************************************)
(* C10: with no file at the sheet path, or no row that asks for a          *)
(* deletion, the request returned is empty, and with an empty request      *)
(* apply ends with status 0 without a prompt and without a network call.   *)
(***************************************************************************)
C10_EmptyRequestEndsQuietly ==
    /\ pc = "gate" /\ (~sheet.exists \/ Targets(sheet) = {}) => full_names = <<>>
    /\ Loaded => sheet = sheet0
    /\ Loaded /\ full_names = <<>> =>
          /\ gate = "None"
          /\ ~Happened("prompt")
          /\ Calls = <<>>
          /\ Gets = <<>>
          /\ ~Broken
          /\ pc \in {"gate", "done"}
          /\ pc = "done" => exit = 0 /\ Happened("NothingMarked")

\* no file at the path: the run has ended with status 0
C10_Witness ==
    /\ Loaded
    /\ ~sheet.exists
    /\ Happened("SheetNotFound")
    /\ pc = "done"
    /\ exit = 0

(***************************************************************************)
(* C11: after write_sheet the file at the path is determined by the list   *)
(* of records alone, whatever was there before: the header full_name,      *)
(* visibility, delete, then one row per record in the order of the list,   *)
(* with the record's full_name, private or public, and No.                 *)
(***************************************************************************)
C11_WriteIsFunctionOfRecords ==
    command = "export" /\ Happened("write") =>
        /\ sheet.exists
        /\ sheet.dir
        /\ sheet.header = <<"full_name", "visibility", "delete">>
        /\ Len(sheet.rows) = Len(result.list)
        /\ \A k \in 1..Len(result.list) :
              /\ Len(sheet.rows[k]) = 3
              /\ sheet.rows[k][1] = result.list[k].full_name
              /\ sheet.rows[k][2] = (IF result.list[k].private = "true"
                                     THEN <<"p","r","i","v","a","t","e">>
                                     ELSE <<"p","u","b","l","i","c">>)
              /\ sheet.rows[k][3] = <<"N","o">>

\* a marked sheet was overwritten with three records of either visibility
C11_Witness ==
    /\ command = "export"
    /\ Happened("write")
    /\ sheet0.exists
    /\ sheet0.rows # <<>>
    /\ result.list = <<R_cd, R_ab, R_ef>>

(***************************************************************************)
(* C12: with an empty token, export and apply alike end with a status      *)
(* other than zero before any network call and before the sheet file is    *)
(* read, written or looked for.                                            *)
(***************************************************************************)
C12_EmptyTokenStopsFirst ==
    Len(token) = 0 /\ pc # "start" =>
        /\ pc = "done"
        /\ exit \notin {0, Running}
        /\ \A p \in 1..Len(io) :
              io[p].op \notin {"GET", "DELETE", "exists", "read", "mkdir", "write"}
        /\ served = <<>>
        /\ sheet = sheet0

\* apply on a sheet with rows, refused for want of a token
C12_Witness ==
    /\ Len(token) = 0
    /\ command = "apply"
    /\ sheet0.exists
    /\ Len(sheet0.rows) = 2
    /\ pc = "done"
    /\ exit = 1
    /\ Happened("TokenRequired")

(***************************************************************************)
(* C13: apply asks the service for no listing, and every name it asks the  *)
(* service to delete is the trimmed full_name cell of a marked row of the  *)
(* sheet it read; no name comes from anywhere else.                        *)
(***************************************************************************)
C13_ApplyDeletesOnlySheetNames ==
    command = "apply" =>
        /\ Gets = <<>>
        /\ served = <<>>
        /\ Calls # <<>> =>
              \A j \in 1..Len(Calls) :
                 \E r \in Targets(sheet0) :
                    Calls[j].s = Trimmed(Cell(sheet0, r, "full_name"))

\* two marked rows, approved, both names sent to the service
C13_Witness ==
    /\ command = "apply"
    /\ run = "first"
    /\ gate = "Approved"
    /\ Len(Calls) = 2
    /\ Calls[1].s # Calls[2].s
    /\ pc = "done"

\* the name row r carries, and the rows that carry name n
NameOf(sh, r) == Trimmed(Cell(sh, r, "full_name"))

RowsNaming(sh, n) == {r \in 1..Len(sh.rows) : NameOf(sh, r) = n}

Names(sh) == {NameOf(sh, r) : r \in 1..Len(sh.rows)} \ {<<>>}

\* how many times name n stands in the deletion request
Times(n) == Cardinality({p \in 1..Len(full_names) : full_names[p] = n})

(***************************************************************************)
(* C14 as stated: of several rows with the same full_name the last one     *)
(* decides; the name is in the deletion request, once, exactly when the    *)
(* delete cell of its last row is affirmative.                             *)
(***************************************************************************)
C14_LastRowWins ==
    pc = "gate" /\ sheet.exists =>
        \A n \in Names(sheet) :
           LET last == CHOOSE r \in RowsNaming(sheet, n) :
                          \A q \in RowsNaming(sheet, n) : q <= r
           IN  /\ Times(n) <= 1
               /\ Times(n) = 1 <=> Marked(sheet, last)

(***************************************************************************)
(* C14: every row is judged on its own.  A name stands in the deletion     *)
(* request once for each row that carries it with an affirmative delete    *)
(* cell, whatever the other rows with the same full_name say: a row marked *)
(* Yes followed by a row marked No still asks for the deletion, and two    *)
(* rows marked Yes ask for it twice.                                       *)
(***************************************************************************)
C14_EveryMarkedRowCounts ==
    pc = "gate" /\ sheet.exists =>
        \A n \in Names(sheet) :
           Times(n) = Cardinality({r \in RowsNaming(sheet, n) : Marked(sheet, r)})

\* a/b marked twice and then unmarked: requested twice
C14_Witness ==
    /\ pc = "gate"
    /\ sheet.exists
    /\ Len(sheet.rows) = 3
    /\ RowsNaming(sheet, N_ab) = {1, 2, 3}
    /\ Marked(sheet, 1) /\ Marked(sheet, 2) /\ ~Marked(sheet, 3)
    /\ full_names = <<N_ab, N_ab>>

\* the header of the sheet lacks a column the reader asks for
LacksColumn(sh) ==
    \E col \in {"full_name", "delete"} :
        \A j \in 1..Len(sh.header) : sh.header[j] # col

(***************************************************************************)
(* C15: when the file at the sheet path has not the expected shape, its    *)
(* header lacking the full_name or the delete column, apply fails: it      *)
(* does not report that nothing is marked, does not prompt, makes no       *)
(* delete call and ends with a status other than zero.                     *)
(***************************************************************************)
C15_UnreadableSheetIsFatal ==
    Loaded /\ sheet0.exists /\ LacksColumn(sheet0) =>
        /\ ~Happened("NothingMarked")
        /\ ~Happened("prompt")
        /\ Calls = <<>>
        /\ pc = "done" => exit # 0

\* a sheet without its delete column, taken for one with nothing marked
C15_Witness ==
    /\ Loaded
    /\ sheet0.exists
    /\ sheet0.header = <<"full_name", "visibility">>
    /\ Len(sheet0.rows) = 2
    /\ Happened("NothingMarked")
    /\ pc = "done"
    /\ exit = 0

(***************************************************************************)
(* C16: every error of one repository in the deletion loop is caught in    *)
(* the loop: each DELETE call, the one whose transport gives no response   *)
(* included, is followed by the Deleted or Failed report of its name, and  *)
(* unless the operator interrupts it the loop goes on with the next name   *)
(* and ends with status 0.                                                 *)
(***************************************************************************)
C16_EveryErrorCaught ==
    gate = "Approved" =>
        /\ \A p \in 1..Len(io) :
              IsCall(io[p]) => p < Len(io) /\ io[p + 1].op \in {"Deleted", "Failed"}
        /\ exit # 130 => LoopGoesOn

\* the first of two calls got no response: no report, the second never made
C16_Witness ==
    /\ gate = "Approved"
    /\ Len(full_names) = 2
    /\ WellFormed(full_names[1]) /\ WellFormed(full_names[2])
    /\ Len(Calls) = 1
    /\ Reports = <<>>
    /\ io[Len(io)].op = "Traceback"
    /\ pc = "done"
    /\ exit = 1

\* the items the loop has gone through: those reported, and the one whose
\* call got no response
Processed ==
    Len(Reports) + (IF Calls # <<>> /\ Len(io) > 1 /\ IsCall(io[Len(io) - 1])
                       /\ io[Len(io)].op = "Traceback"
                    THEN 1 ELSE 0)

(***************************************************************************)
(* C17: at every point of the deletion loop the names a DELETE call was    *)
(* issued for are, in order, the names with a "/" among the items gone     *)
(* through so far; no other request goes to the service, and a run         *)
(* interrupted after k items has made no call for an item after the k-th.  *)
(***************************************************************************)
C17_CallsAreWellFormedPrefix ==
    gate = "Approved" =>
        /\ Processed <= Len(full_names)
        /\ [j \in 1..Len(Calls) |-> Calls[j].s] = WellFormedUpTo(Processed)
        /\ Gets = <<>>
        /\ pc = "loop" => idx = Processed + 1
        /\ exit = 130 => pc = "done" /\ idx = Processed + 1 /\ idx <= Len(full_names)

\* interrupted after the second of three items; the first had no "/"
C17_Witness ==
    /\ gate = "Approved"
    /\ exit = 130
    /\ Len(full_names) = 3
    /\ ~WellFormed(full_names[1])
    /\ WellFormed(full_names[2]) /\ WellFormed(full_names[3])
    /\ Len(Reports) = 2
    /\ Len(Calls) = 1
    /\ Calls[1].s = full_names[2]

(***************************************************************************)
(* C18 as stated: whenever every request is answered the listing comes to  *)
(* an end, whatever links the answers carry.                               *)
(***************************************************************************)
C18_ListAllTerminates == (pc = "list") ~> (pc # "list")

(***************************************************************************)
(* C18: the only end of the listing loop is an answer that is no success   *)
(* or carries no next link (or no answer at all).  While the loop runs     *)
(* every answer so far was a success with a link, the next request goes    *)
(* to that link, whether or not the page was fetched before, and the       *)
(* request can always be made: nothing counts the turns.  Once the loop    *)
(* has ended the last answer was a failure or had no link.                 *)
(***************************************************************************)
C18_EndsOnlyWhereLinksEnd ==
    /\ pc = "list" =>
          /\ url # NoUrl
          /\ ENABLED LiveGetPage
          /\ served # <<>> =>
                /\ ~served[Len(served)].resp.raised
                /\ served[Len(served)].resp.status = 200
                /\ served[Len(served)].resp.next = url
    /\ pc = "listed" =>
          /\ served # <<>>
          /\ ~served[Len(served)].resp.raised
          /\ \/ served[Len(served)].resp.status # 200
             \/ served[Len(served)].resp.next = NoUrl

\* the answer for the first page links back to the first page, which is
\* about to be fetched again
C18_Witness ==
    /\ pc = "list"
    /\ served # <<>>
    /\ served[Len(served)].url = FirstUrl
    /\ served[Len(served)].resp.next = FirstUrl
    /\ url = FirstUrl
    /\ repos = <<R_cd, R_ab>>

(***************************************************************************)
(* C19: apply run on the sheet an export has just written, with no edit    *)
(* in between, reads an empty deletion request, whatever the listing       *)
(* returned and whatever was marked in the sheet the export replaced: it   *)
(* does not prompt, deletes nothing, leaves the sheet as written and ends  *)
(* with status 0.                                                          *)
(***************************************************************************)
C19_FreshSheetDeletesNothing ==
    run = "second" /\ prev.command = "export" /\ prev.wrote =>
        /\ sheet0.exists
        /\ \A k \in 1..Len(sheet0.rows) : ~Marked(sheet0, k)
        /\ full_names = <<>>
        /\ gate = "None"
        /\ ~Happened("prompt")
        /\ Calls = <<>>
        /\ sheet = sheet0
        /\ pc = "done" => exit = 0 /\ Happened("NothingMarked")

\* the export replaced a sheet that marked a/b, the listing held a/b
C19_Witness ==
    /\ run = "second"
    /\ prev.command = "export"
    /\ prev.wrote
    /\ prev.marked
    /\ Len(sheet0.rows) = 3
    /\ \E k \in 1..3 : sheet0.rows[k][1] = N_ab
    /\ Happened("read")
    /\ pc = "done"
    /\ exit = 0

(***************************************************************************)
(* C20: apply leaves the sheet file as it found it, whether it ends with   *)
(* nothing to do, aborted, or approved with any mix of Deleted and Failed: *)
(* it makes no directory and writes no file, and the sheet after the run   *)
(* is the sheet before it.  A second apply, approved again, therefore      *)
(* issues a DELETE for the very names the first one issued a DELETE for.   *)
(***************************************************************************)
C20_ApplyLeavesSheetAlone ==
    command = "apply" =>
        /\ sheet = sheet0
        /\ \A p \in 1..Len(io) : io[p].op \notin {"mkdir", "write", "Wrote"}
        /\ (/\ run = "second"
            /\ prev.command = "apply"
            /\ prev.gate = "Approved"
            /\ gate = "Approved"
            /\ pc = "done"
            /\ exit = 0)
           => [j \in 1..Len(Calls) |-> Calls[j].s] = prev.calls

\* the second approved apply has repeated both calls of the first; its
\* first name is Failed this time
C20_Witness ==
    /\ run = "second"
    /\ prev.command = "apply"
    /\ prev.gate = "Approved"
    /\ Len(prev.calls) = 2
    /\ gate = "Approved"
    /\ pc = "done"
    /\ exit = 0
    /\ Len(Calls) = 2
    /\ Calls[1].s = prev.calls[1]
    /\ Reports[1].op = "Failed"
    /\ sheet = sheet0

=============================================================================
